---------------------------- MODULE Spec2Model ----------------------------
(***************************************************************************)
(* Model of the message ingestion, deduplication and WebSocket fan-out of  *)
(* src/main.go: the SQLite "messages" table, handleIncomingMessage (both   *)
(* input shapes), broadcastMessage, handleWebSocket, sendMessage and       *)
(* receiveMessage, run by concurrent goroutines.                           *)
(***************************************************************************)
EXTENDS Integers, Sequences, FiniteSets, TLC

(***************************************************************************)
(* Bounds of the model.                                                    *)
(***************************************************************************)
\* External message events delivered to the event handler in a run.
MaxEvents == 2
\* POST /send-message requests accepted in a run.
MaxSends == 2
\* Events and requests together in a run.
MaxIngests == 3

\* The goroutine that runs the whatsmeow event handler (one event at a time).
Ext == "ext"
\* Goroutines serving POST /send-message (gin runs one per request).
SendThreads == {"s1", "s2"}
Ingesters == {Ext} \cup SendThreads
\* WebSocket connections (*websocket.Conn), each with its handleWebSocket.
Conns == {"c1", "c2"}
\* Message texts.
Bodies == {"hi", "yo"}
\* Sender of external events (v.Info.Sender.String()).
EventSenders == {"A@x"}
\* Instants carried by external events, in tenths of a second (whole seconds).
EventTimes == {10}
\* Recipients of a /send-message request: a phone number, or nothing.
Recipients == {"628", ""}
\* Reading of the wall clock at start-up, in tenths of a second.
ClockStart == 9

\* The sender written for a local send (main.go line 113).
LocalSender == "6285123945816@s.whatsapp.net"

NoOne == "none"
Null == 0
NoMsg == [sender |-> "", message |-> "", timestamp |-> <<>>, att |-> 0]

VARIABLES
    rows,       \* table messages: set of [id, sender, message, timestamp]
    seq,        \* sqlite_sequence of the table: largest rowid ever used
    now,        \* wall clock, tenths of a second
    wsClients,  \* the map wsClients: set of registered connections
    wsMutex,    \* holder of wsMutex, or NoOne
    pc,         \* position of every ingesting goroutine
    cur,        \* sender/message/timestamp locals of handleIncomingMessage
    visited,    \* connections the range loop of broadcastMessage has produced
    resp,       \* last HTTP status answered by each /send-message goroutine
    hpc,        \* position of every handleWebSocket goroutine
    peer,       \* remote end of each connection: "open", "stalled", "closed"
    closed,     \* connections on which the server called Close()
    delivered,  \* per connection, the attempts whose JSON reached the peer
    pulled,     \* per connection's client, the /receive-message answer it got
                \* (and, as history, the state of its connection then)
    nEvents,    \* events delivered so far
    nSends,     \* /send-message requests taken so far
    log,        \* history: every ingest attempt, its path, goroutine, outcome
    commitSeq,  \* history: attempts in the order their commit succeeded
    joined,     \* history: per connection, Len(commitSeq) when it was added
    pub,        \* history: per goroutine, the Publish call in progress or last
    dropped,    \* history: connections removed after a failed write
    call        \* history: per /send-message goroutine, the call of
                \* client.SendMessage its current or last request made

vars == <<rows, seq, now, wsClients, wsMutex, pc, cur, visited, resp, hpc,
          peer, closed, delivered, pulled, nEvents, nSends, log, commitSeq,
          joined, pub, dropped, call>>

(***************************************************************************)
(* Timestamps: time.Time.String() in Asia/Jakarta, compared as TEXT.       *)
(***************************************************************************)
\* Character codes of the text: ' ' = 32, '.' = 46, '0'..'9' = 48..57.
Digit(d) == 48 + d

\* t.In(loc).String(): seconds in two digits, the fraction with its trailing
\* zeros dropped (none at all for a whole second), then " +0700 WIB", of
\* which the leading blank is kept.
Format(t) ==
    <<Digit((t \div 100) % 10), Digit((t \div 10) % 10)>>
        \o (IF t % 10 = 0 THEN <<>> ELSE <<46, Digit(t % 10)>>)
        \o <<32>>

\* SQLite's BINARY collation on TEXT: memcmp, the shorter prefix first.
RECURSIVE TextLess(_, _)
TextLess(a, b) ==
    IF b = <<>> THEN FALSE
    ELSE IF a = <<>> THEN TRUE
    ELSE IF Head(a) # Head(b) THEN Head(a) < Head(b)
    ELSE TextLess(Tail(a), Tail(b))

TextLeq(a, b) == a = b \/ TextLess(a, b)

Triple(m) == <<m.sender, m.message, m.timestamp>>

(***************************************************************************)
(* The Store.                                                              *)
(***************************************************************************)
\* A subquery that looks the id up by sender, message and timestamp.
SubqueryIdsByTriple(table, m) ==
    LET sel == {r \in table : Triple(r) = Triple(m)}
    IN  IF sel = {} THEN {Null} ELSE {r.id : r \in sel}

\* (SELECT id FROM messages WHERE sender = ? AND message = ?): the id of a
\* matching row (any of them, were there several), NULL when there is none.
SubqueryIds(table, m) ==
    LET sel == {r \in table : r.sender = m.sender /\ r.message = m.message}
    IN  IF sel = {} THEN {Null} ELSE {r.id : r \in sel}

\* The row written for id and message m: a NULL id takes the next rowid of
\* the AUTOINCREMENT key.
NewRow(id, m, s) ==
    [id |-> IF id = Null THEN s + 1 ELSE id,
     sender |-> m.sender, message |-> m.message, timestamp |-> m.timestamp]

\* The variant of the statement without conflict resolution or constraint:
\* INSERT INTO messages (sender, message, timestamp) VALUES (?, ?, ?).
PlainInsert(table, id, m, s) ==
    table \cup {NewRow(Null, m, s)}

\* INSERT OR REPLACE: the rows that conflict with the new one, on the primary
\* key or on UNIQUE(sender, message, timestamp), are deleted, then the new row
\* is inserted.
InsertOrReplace(table, id, m, s) ==
    LET new == NewRow(id, m, s)
        conflicts == {r \in table : r.id = new.id \/ Triple(r) = Triple(new)}
    IN  (table \ conflicts) \cup {new}

Max(a, b) == IF a >= b THEN a ELSE b

\* SELECT sender, message, timestamp FROM messages ORDER BY timestamp ASC:
\* every order of the rows that ascends by timestamp (rows of equal timestamp
\* come in an order SQLite does not fix).
Perms(S) ==
    {f \in [1..Cardinality(S) -> S] :
        \A i, j \in 1..Cardinality(S) : i # j => f[i] # f[j]}

Snapshots(table) ==
    {[i \in 1..Cardinality(table) |->
        [sender |-> f[i].sender, message |-> f[i].message,
         timestamp |-> f[i].timestamp]] :
     f \in {g \in Perms(table) :
              \A i \in 1..(Cardinality(table) - 1) :
                  TextLeq(g[i].timestamp, g[i + 1].timestamp)}}


(***************************************************************************)
(* Initial state: main() has run initClient and initDatabase on an empty   *)
(* database, and no request has arrived.                                   *)
(***************************************************************************)
NoPublish == [start |-> {}, count |-> [c \in Conns |-> 0], failed |-> {},
              att |-> 0, done |-> FALSE]
NoCall == [made |-> FALSE, to |-> "", text |-> "", ok |-> FALSE]
NotPulled == [status |-> 0, marker |-> FALSE, messages |-> <<>>, reg |-> FALSE,
              pushes |-> 0]

Init ==
    /\ rows = {}
    /\ seq = 0
    /\ now = ClockStart
    /\ wsClients = {}
    /\ wsMutex = NoOne
    /\ pc = [p \in Ingesters |-> "idle"]
    /\ cur = [p \in Ingesters |-> NoMsg]
    /\ visited = [p \in Ingesters |-> {}]
    /\ resp = [p \in SendThreads |-> 0]
    /\ hpc = [c \in Conns |-> "init"]
    /\ peer = [c \in Conns |-> "open"]
    /\ closed = {}
    /\ delivered = [c \in Conns |-> <<>>]
    /\ pulled = [c \in Conns |-> NotPulled]
    /\ nEvents = 0
    /\ nSends = 0
    /\ log = <<>>
    /\ commitSeq = <<>>
    /\ joined = [c \in Conns |-> -1]
    /\ pub = [p \in Ingesters |-> NoPublish]
    /\ dropped = {}
    /\ call = [t \in SendThreads |-> NoCall]

storeVars == <<rows, seq>>
registryVars == <<wsClients, wsMutex, visited, closed, delivered, dropped, pub>>
connVars == <<hpc, peer, joined>>

(***************************************************************************)
(* sendMessage and the event handler: the two callers of                   *)
(* handleIncomingMessage.                                                  *)
(***************************************************************************)
\* A parseJID that takes whatever it is given.
parseJIDUnchecked(raw) == TRUE

\* parseJID: "@s.whatsapp.net" is appended and the result parsed; it is
\* rejected when the user part is empty.
parseJID(raw) == raw # ""

Requests == [wellformed : BOOLEAN, recipient : Recipients, message : Bodies]
Events == [sender : EventSenders, message : Bodies, ts : EventTimes]

\* A sendMessage that does not look at the error client.SendMessage returns.
EarlyStatusSendIgnored(req, sendOk) ==
    IF ~req.wellformed THEN 400
    ELSE IF ~parseJID(req.recipient) THEN 400
    ELSE 0

\* The status sendMessage answers before it reaches handleIncomingMessage,
\* 0 when it goes on: 400 for a body that does not bind or a recipient that
\* does not parse, 500 when client.SendMessage fails.
EarlyStatus(req, sendOk) ==
    IF ~req.wellformed THEN 400
    ELSE IF ~parseJID(req.recipient) THEN 400
    ELSE IF ~sendOk THEN 500
    ELSE 0

\* client.SendMessage is called when neither early return was taken.
CallsClient(req) == req.wellformed /\ parseJID(req.recipient)

\* What the request asks of client.SendMessage, and whether that returned
\* without error.
ClientCall(req, sendOk) ==
    IF CallsClient(req)
    THEN [made |-> TRUE, to |-> req.recipient, text |-> req.message,
          ok |-> sendOk]
    ELSE NoCall

\* A case Request that takes the sender from the request.
ClassifyRequestFromRecipient(req, t) ==
    [sender |-> req.recipient, message |-> req.message,
     timestamp |-> Format(t)]

\* case Request of the type switch: the clock is read, the sender is fixed.
ClassifyRequest(req, t) ==
    [sender |-> LocalSender, message |-> req.message, timestamp |-> Format(t)]

\* case *events.Message of the type switch.
ClassifyEvent(e) ==
    [sender |-> e.sender, message |-> e.message, timestamp |-> Format(e.ts)]

Attempt(p, path, m) ==
    [proc |-> p, path |-> path, msg |-> Triple(m), status |-> "pending"]

WithAtt(m, a) ==
    [sender |-> m.sender, message |-> m.message, timestamp |-> m.timestamp,
     att |-> a]

\* POST /send-message up to the call of handleIncomingMessage and the read of
\* time.Now() in it.
SendMessage(t, req, sendOk) ==
    /\ pc[t] = "idle"
    /\ nSends < MaxSends
    /\ nEvents + nSends < MaxIngests
    /\ nSends' = nSends + 1
    /\ call' = [call EXCEPT ![t] = ClientCall(req, sendOk)]
    /\ IF EarlyStatus(req, sendOk) # 0
       THEN /\ resp' = [resp EXCEPT ![t] = EarlyStatus(req, sendOk)]
            /\ UNCHANGED <<pc, cur, now, log>>
       ELSE /\ cur' = [cur EXCEPT
                  ![t] = WithAtt(ClassifyRequest(req, now), Len(log) + 1)]
            /\ log' = Append(log, Attempt(t, "send", ClassifyRequest(req, now)))
            /\ now' = now + 1
            /\ pc' = [pc EXCEPT ![t] = "commit"]
            /\ resp' = [resp EXCEPT ![t] = 0]
    /\ UNCHANGED <<storeVars, registryVars, connVars, pulled, nEvents, commitSeq>>

\* The event handler registered by initClient passes a *events.Message on.
ExtEvent(e) ==
    /\ pc[Ext] = "idle"
    /\ nEvents < MaxEvents
    /\ nEvents + nSends < MaxIngests
    /\ nEvents' = nEvents + 1
    /\ cur' = [cur EXCEPT ![Ext] = WithAtt(ClassifyEvent(e), Len(log) + 1)]
    /\ log' = Append(log, Attempt(Ext, "event", ClassifyEvent(e)))
    /\ pc' = [pc EXCEPT ![Ext] = "commit"]
    /\ UNCHANGED <<storeVars, registryVars, connVars, pulled, now, nSends,
                   call, commitSeq, resp>>

(***************************************************************************)
(* handleIncomingMessage: the commit.                                      *)
(***************************************************************************)
\* Where handleIncomingMessage goes when db.Exec returns an error: it logs
\* and returns.
AfterCommitErrorBroadcast == "lock"
AfterCommitError == "idle"

\* A handleIncomingMessage that broadcasts only what was not yet stored.
AfterCommitUnlessStored(p) ==
    IF \E r \in rows : Triple(r) = Triple(cur[p]) THEN "idle" ELSE "lock"

\* Where handleIncomingMessage goes when db.Exec returns no error: on to
\* broadcastMessage, whether the statement added a row or replaced one.
AfterCommit(p) == "lock"

\* A sendMessage that answers 500 when the commit of the mirrored message
\* did not succeed.
AnswerReportsCommit(p, old) ==
    IF p \in SendThreads
    THEN [old EXCEPT ![p] = IF log[cur[p].att].status = "committed"
                            THEN 200 ELSE 500]
    ELSE old

\* The status sendMessage answers once handleIncomingMessage has returned.
Answer(p, old) == IF p \in SendThreads THEN [old EXCEPT ![p] = 200] ELSE old

CommitOk(p, id) ==
    /\ rows' = InsertOrReplace(rows, id, cur[p], seq)
    /\ seq' = Max(seq, NewRow(id, cur[p], seq).id)
    /\ log' = [log EXCEPT ![cur[p].att].status = "committed"]
    /\ commitSeq' = Append(commitSeq, cur[p].att)
    /\ pc' = [pc EXCEPT ![p] = AfterCommit(p)]
    /\ UNCHANGED <<resp, cur>>

CommitErr(p) ==
    /\ log' = [log EXCEPT ![cur[p].att].status = "failed"]
    /\ pc' = [pc EXCEPT ![p] = AfterCommitError]
    /\ resp' = IF AfterCommitError = "idle" THEN Answer(p, resp) ELSE resp
    /\ cur' = IF AfterCommitError = "idle" THEN [cur EXCEPT ![p] = NoMsg]
              ELSE cur
    /\ UNCHANGED <<rows, seq, commitSeq>>

Commit(p) ==
    /\ pc[p] = "commit"
    /\ \/ \E id \in SubqueryIds(rows, cur[p]) : CommitOk(p, id)
       \/ CommitErr(p)
    /\ UNCHANGED <<registryVars, connVars, pulled, now, nEvents, nSends, call>>

(***************************************************************************)
(* broadcastMessage.                                                       *)
(***************************************************************************)
\* A loop that forgets which keys it has produced.
RangeAll(p) == wsClients

\* A loop over every connection that was ever added.
RangeEverAdded(p) == {c \in Conns : joined[c] >= 0} \ visited[p]

\* for client := range wsClients: the keys still to be produced are those
\* in the map that the loop has not produced yet (a key deleted before it is
\* reached is not produced, and nothing is added while the lock is held).
RangeTargets(p) == wsClients \ visited[p]

\* A removal that empties the map when the key is not in it.
DeleteOrClear(clients, c) == IF c \in clients THEN clients \ {c} ELSE {}

\* A failure branch that forgets delete(wsClients, client).
KeepClient(clients, c) == clients

\* delete(wsClients, client).
DeleteClient(clients, c) == clients \ {c}

\* A broadcastMessage that starts its loop without waiting for the lock.
BroadcastNoLock(p) ==
    /\ pc[p] = "lock"
    /\ wsMutex' = p
    /\ visited' = [visited EXCEPT ![p] = {}]
    /\ pub' = [pub EXCEPT ![p] = [start |-> wsClients,
                                  count |-> [c \in Conns |-> 0],
                                  failed |-> {}, att |-> cur[p].att,
                                  done |-> FALSE]]
    /\ pc' = [pc EXCEPT ![p] = "range"]
    /\ UNCHANGED <<storeVars, connVars, wsClients, closed, delivered, dropped,
                   pulled, now, nEvents, nSends, call, cur, resp, log,
                   commitSeq>>

\* wsMutex.Lock() at the head of broadcastMessage.
BroadcastLock(p) ==
    /\ pc[p] = "lock"
    /\ wsMutex = NoOne
    /\ wsMutex' = p
    /\ visited' = [visited EXCEPT ![p] = {}]
    /\ pub' = [pub EXCEPT ![p] = [start |-> wsClients,
                                  count |-> [c \in Conns |-> 0],
                                  failed |-> {}, att |-> cur[p].att,
                                  done |-> FALSE]]
    /\ pc' = [pc EXCEPT ![p] = "range"]
    /\ UNCHANGED <<storeVars, connVars, wsClients, closed, delivered, dropped,
                   pulled, now, nEvents, nSends, call, cur, resp, log,
                   commitSeq>>

\* client.WriteJSON(message) returns nil and the peer reads the frame.
WriteDelivered(p, c) ==
    /\ peer[c] = "open"
    /\ delivered' = [delivered EXCEPT ![c] = Append(@, cur[p].att)]
    /\ pub' = [pub EXCEPT ![p].count[c] = @ + 1]
    /\ UNCHANGED <<wsClients, closed, dropped>>

\* client.WriteJSON(message) returns nil although the peer is gone: the frame
\* went into the socket buffer and is read by no one.
WriteLost(p, c) ==
    /\ peer[c] = "closed"
    /\ pub' = [pub EXCEPT ![p].count[c] = @ + 1]
    /\ UNCHANGED <<wsClients, closed, delivered, dropped>>

\* client.WriteJSON(message) returns an error: client.Close() and
\* delete(wsClients, client).
WriteFailed(p, c) ==
    /\ peer[c] = "closed"
    /\ closed' = closed \cup {c}
    /\ wsClients' = DeleteClient(wsClients, c)
    /\ dropped' = dropped \cup {c}
    /\ pub' = [pub EXCEPT ![p].count[c] = @ + 1, ![p].failed = @ \cup {c}]
    /\ UNCHANGED delivered

\* One turn of the range loop. A write to a peer that does not drain its
\* connection ("stalled") does not return.
BroadcastWrite(p, c) ==
    /\ pc[p] = "range"
    /\ c \in RangeTargets(p)
    /\ visited' = [visited EXCEPT ![p] = @ \cup {c}]
    /\ \/ WriteDelivered(p, c)
       \/ WriteLost(p, c)
       \/ WriteFailed(p, c)
    /\ UNCHANGED <<storeVars, connVars, wsMutex, pc, pulled, now, nEvents,
                   nSends, call, cur, resp, log, commitSeq>>

\* A broadcastMessage that returns without the Unlock.
BroadcastReturnKeepsLock(p) ==
    /\ pc[p] = "range"
    /\ RangeTargets(p) = {}
    /\ pub' = [pub EXCEPT ![p].done = TRUE]
    /\ pc' = [pc EXCEPT ![p] = "idle"]
    /\ resp' = Answer(p, resp)
    /\ visited' = [visited EXCEPT ![p] = {}]
    /\ cur' = [cur EXCEPT ![p] = NoMsg]
    /\ UNCHANGED <<storeVars, connVars, wsClients, wsMutex, closed, delivered,
                   dropped, pulled, now, nEvents, nSends, call, log,
                   commitSeq>>

\* The range is exhausted: the deferred wsMutex.Unlock(), and the return to
\* the caller (sendMessage then answers 200).
BroadcastReturn(p) ==
    /\ pc[p] = "range"
    /\ RangeTargets(p) = {}
    /\ wsMutex' = NoOne
    /\ pub' = [pub EXCEPT ![p].done = TRUE]
    /\ pc' = [pc EXCEPT ![p] = "idle"]
    /\ resp' = Answer(p, resp)
    /\ visited' = [visited EXCEPT ![p] = {}]
    /\ cur' = [cur EXCEPT ![p] = NoMsg]
    /\ UNCHANGED <<storeVars, connVars, wsClients, closed, delivered, dropped,
                   pulled, now, nEvents, nSends, call, log, commitSeq>>

(***************************************************************************)
(* handleWebSocket, and the remote end of its connection.                  *)
(***************************************************************************)
\* upgrader.Upgrade: on an error the handler returns.
Upgrade(c, ok) ==
    /\ hpc[c] = "init"
    /\ hpc' = [hpc EXCEPT ![c] = IF ok THEN "upgraded" ELSE "done"]
    /\ UNCHANGED <<storeVars, registryVars, peer, joined, pulled, now, nEvents,
                   nSends, call, pc, cur, resp, log, commitSeq>>

\* An add that loses the entries made by others (a lost update).
ReplaceClients(clients, c) == {c}

\* wsClients[conn] = true.
AddClient(clients, c) == clients \cup {c}

\* wsMutex.Lock(); wsClients[conn] = true; wsMutex.Unlock().
Register(c) ==
    /\ hpc[c] = "upgraded"
    /\ wsMutex = NoOne
    /\ wsClients' = AddClient(wsClients, c)
    /\ joined' = [joined EXCEPT ![c] = Len(commitSeq)]
    /\ hpc' = [hpc EXCEPT ![c] = "reading"]
    /\ UNCHANGED <<storeVars, wsMutex, visited, closed, delivered, dropped,
                   pub, peer, pulled, now, nEvents, nSends, call, pc, cur,
                   resp, log, commitSeq>>

\* conn.ReadMessage() returns an error, once the peer has closed or the
\* server has closed the connection; the loop breaks. (A frame read without
\* error is discarded and changes nothing.)
ReadError(c) ==
    /\ hpc[c] = "reading"
    /\ peer[c] = "closed" \/ c \in closed
    /\ hpc' = [hpc EXCEPT ![c] = "remove"]
    /\ UNCHANGED <<storeVars, registryVars, peer, joined, pulled, now, nEvents,
                   nSends, call, pc, cur, resp, log, commitSeq>>

\* wsMutex.Lock(); delete(wsClients, conn); wsMutex.Unlock(); then the
\* deferred conn.Close().
Remove(c) ==
    /\ hpc[c] = "remove"
    /\ wsMutex = NoOne
    /\ wsClients' = DeleteClient(wsClients, c)
    /\ closed' = closed \cup {c}
    /\ hpc' = [hpc EXCEPT ![c] = "done"]
    /\ UNCHANGED <<storeVars, wsMutex, visited, delivered, dropped, pub, peer,
                   joined, pulled, now, nEvents, nSends, call, pc, cur, resp,
                   log, commitSeq>>

\* The remote end closes, or the network to it breaks.
PeerClose(c) ==
    /\ hpc[c] \in {"upgraded", "reading"}
    /\ peer[c] \in {"open", "stalled"}
    /\ peer' = [peer EXCEPT ![c] = "closed"]
    /\ UNCHANGED <<storeVars, registryVars, hpc, joined, pulled, now, nEvents,
                   nSends, call, pc, cur, resp, log, commitSeq>>

\* The remote end stops reading its socket.
PeerStall(c) ==
    /\ hpc[c] \in {"upgraded", "reading"}
    /\ peer[c] = "open"
    /\ peer' = [peer EXCEPT ![c] = "stalled"]
    /\ UNCHANGED <<storeVars, registryVars, hpc, joined, pulled, now, nEvents,
                   nSends, call, pc, cur, resp, log, commitSeq>>

\* The remote end reads its socket again.
PeerDrain(c) ==
    /\ peer[c] = "stalled"
    /\ peer' = [peer EXCEPT ![c] = "open"]
    /\ UNCHANGED <<storeVars, registryVars, hpc, joined, pulled, now, nEvents,
                   nSends, call, pc, cur, resp, log, commitSeq>>

(***************************************************************************)
(* receiveMessage, called by the client of connection c.                   *)
(***************************************************************************)
\* An answer that is the list whatever its length.
HistoryResponseAlwaysList(h) ==
    [status |-> 200, marker |-> FALSE, messages |-> h]

\* The answer for the rows read: the marker when there are none.
HistoryResponse(h) ==
    IF Len(h) = 0
    THEN [status |-> 200, marker |-> TRUE, messages |-> <<>>]
    ELSE [status |-> 200, marker |-> FALSE, messages |-> h]

QueryFailed == [status |-> 500, marker |-> FALSE, messages |-> <<>>]

\* The answer, with what the client's connection was at that time: whether
\* it was registered, and how many pushes it had got.
WithReg(r, c) ==
    [status |-> r.status, marker |-> r.marker, messages |-> r.messages,
     reg |-> c \in wsClients, pushes |-> Len(delivered[c])]

ReceiveMessage(c) ==
    /\ pulled[c] = NotPulled
    /\ \/ \E h \in Snapshots(rows) :
            pulled' = [pulled EXCEPT ![c] = WithReg(HistoryResponse(h), c)]
       \/ pulled' = [pulled EXCEPT ![c] = WithReg(QueryFailed, c)]
    /\ UNCHANGED <<storeVars, registryVars, connVars, now, nEvents, nSends,
                   call, pc, cur, resp, log, commitSeq>>

(***************************************************************************)
(* The program: every goroutine may take its next step.                    *)
(***************************************************************************)
SendStep(T) ==
    \E t \in T, req \in Requests, ok \in BOOLEAN : SendMessage(t, req, ok)

EventStep == \E e \in Events : ExtEvent(e)

IngestStep(P) ==
    \E p \in P : Commit(p) \/ BroadcastLock(p) \/ BroadcastReturn(p)

WriteStep(P, C) == \E p \in P, c \in C : BroadcastWrite(p, c)

ConnStep(C) ==
    \E c \in C :
        \/ \E ok \in BOOLEAN : Upgrade(c, ok)
        \/ Register(c)
        \/ ReadError(c)
        \/ Remove(c)
        \/ PeerClose(c)

StallStep(C) == \E c \in C : PeerStall(c) \/ PeerDrain(c)

PullStep(C) == \E c \in C : ReceiveMessage(c)

Next ==
    \/ SendStep(SendThreads)
    \/ EventStep
    \/ IngestStep(Ingesters)
    \/ WriteStep(Ingesters, Conns)
    \/ ConnStep(Conns)
    \/ StallStep(Conns)
    \/ PullStep(Conns)

Spec == Init /\ [][Next]_vars

(***************************************************************************)
(* Scenarios: the program with only some of its goroutines started. A      *)
(* goroutine left out stays where Init puts it.                            *)
(***************************************************************************)
\* The ingest paths alone, with no WebSocket client: the Store.
NextStore ==
    \/ SendStep(SendThreads)
    \/ EventStep
    \/ IngestStep(Ingesters)

StoreSpec == Init /\ [][NextStore]_vars

\* The event path publishing to both connections, which come and go.
NextFanout ==
    \/ EventStep
    \/ IngestStep({Ext})
    \/ WriteStep({Ext}, Conns)
    \/ ConnStep(Conns)

FanoutSpec == Init /\ [][NextFanout]_vars

\* The event path, one connection, and its client pulling the history.
NextReconcile ==
    \/ EventStep
    \/ IngestStep({Ext})
    \/ WriteStep({Ext}, {"c1"})
    \/ ConnStep({"c1"})
    \/ PullStep({"c1"})

ReconcileSpec == Init /\ [][NextReconcile]_vars

\* Concurrent /send-message requests publishing to one connection.
NextOrder ==
    \/ SendStep(SendThreads)
    \/ IngestStep(SendThreads)
    \/ WriteStep(SendThreads, {"c1"})
    \/ ConnStep({"c1"})

OrderSpec == Init /\ [][NextOrder]_vars

\* /send-message requests served one after the other, one connection, and
\* its client pulling the history.
NextMirror ==
    \/ SendStep({"s1"})
    \/ IngestStep({"s1"})
    \/ WriteStep({"s1"}, {"c1"})
    \/ ConnStep({"c1"})
    \/ PullStep({"c1"})

MirrorSpec == Init /\ [][NextMirror]_vars

\* Events and /send-message requests filling the table, and a client
\* pulling the history.
NextHistory ==
    \/ SendStep({"s1"})
    \/ EventStep
    \/ IngestStep({Ext, "s1"})
    \/ PullStep({"c1"})

HistorySpec == Init /\ [][NextHistory]_vars

\* The event path and one connection whose peer may stop reading. The Go
\* scheduler runs every goroutine that can run: a write goes through if the
\* peer reads its socket again and again, and a publisher whose range is
\* exhausted returns.
NextStall ==
    \/ EventStep
    \/ IngestStep({Ext})
    \/ WriteStep({Ext}, {"c1"})
    \/ ConnStep({"c1"})
    \/ StallStep({"c1"})

StallSpec ==
    /\ Init
    /\ [][NextStall]_vars
    /\ SF_vars(WriteStep({Ext}, {"c1"}))
    /\ WF_vars(BroadcastReturn(Ext))

\* The event path publishing to both connections, which come and go, one
\* of them with a peer that may stop reading.
NextBlock ==
    \/ EventStep
    \/ IngestStep({Ext})
    \/ WriteStep({Ext}, Conns)
    \/ ConnStep(Conns)
    \/ StallStep({"c1"})

BlockSpec == Init /\ [][NextBlock]_vars

\* Clients that connect and stay.
JoinStep(C) == \E c \in C : (\E ok \in BOOLEAN : Upgrade(c, ok)) \/ Register(c)

\* Two /send-message goroutines publishing concurrently to both
\* connections, which join at any time and stay.
NextSerial ==
    \/ SendStep(SendThreads)
    \/ IngestStep(SendThreads)
    \/ WriteStep(SendThreads, Conns)
    \/ JoinStep(Conns)

SerialSpec == Init /\ [][NextSerial]_vars

\* The steps of the handleWebSocket goroutine of c once its connection is
\* upgraded.
HandlerStep(c) == Register(c) \/ ReadError(c) \/ Remove(c)

\* The same program under the Go scheduler: a goroutine that can run does
\* run, a write goes through if the peer reads its socket again and again.
\* (Whether a client connects, and what the peers do, is up to them.)
FairBlockSpec ==
    /\ Init
    /\ [][NextBlock]_vars
    /\ WF_vars(IngestStep({Ext}))
    /\ SF_vars(WriteStep({Ext}, Conns))
    /\ \A c \in Conns : WF_vars(HandlerStep(c))

\* A /send-message request that reaches handleIncomingMessage: well formed,
\* and sent by the client.
AcceptedSendStep(T) ==
    \E t \in T :
        SendMessage(t, [wellformed |-> TRUE, recipient |-> "628",
                        message |-> "hi"], TRUE)

\* An incoming event with the same body.
SameBodyEventStep == \E e \in Events : e.message = "hi" /\ ExtEvent(e)

\* The event path and a /send-message goroutine ingesting concurrently, and
\* a connection that comes and goes, with peers that read or close but never
\* stop reading: every write returns. Every goroutine that can run does run.
NextLock ==
    \/ SameBodyEventStep
    \/ AcceptedSendStep({"s1"})
    \/ IngestStep({Ext, "s1"})
    \/ WriteStep({Ext, "s1"}, {"c1"})
    \/ ConnStep({"c1"})

LockSpec ==
    /\ Init
    /\ [][NextLock]_vars
    /\ \A p \in {Ext, "s1"} :
           WF_vars(IngestStep({p})) /\ WF_vars(WriteStep({p}, {"c1"}))
    /\ WF_vars(HandlerStep("c1"))

(***************************************************************************)
(* Properties.                                                             *)
(***************************************************************************)
InSeq(x, sq) == \E i \in DOMAIN sq : sq[i] = x
SeqRange(sq) == {sq[i] : i \in DOMAIN sq}
Committed(a) == log[a].status = "committed"
RowsWith(table, triple) == {r \in table : Triple(r) = triple}
\* Goroutine p's db.Exec returns without error in this step.
CommitSucceeds(p) == pc[p] = "commit" /\ pc'[p] = "lock"
\* Goroutine p's db.Exec returns an error in this step.
CommitFails(p) == pc[p] = "commit" /\ log'[cur[p].att].status = "failed"
Quiescent == \A p \in Ingesters : pc[p] = "idle"

NoDuplicateTriple ==
    \A r1, r2 \in rows : Triple(r1) = Triple(r2) => r1 = r2

CommitYieldsOneRow ==
    \A p \in Ingesters :
        CommitSucceeds(p) =>
            /\ Cardinality(RowsWith(rows', Triple(cur[p]))) = 1
            /\ Cardinality(rows') <= Cardinality(rows) + 1

\* C1: whatever ingests of events and local sends interleave, the table never
\* holds two rows with the same (sender, message, timestamp); a commit, of a
\* triple already stored too, leaves exactly one row with that triple and
\* lengthens the history by at most one.
C1_IdempotentCommit ==
    []NoDuplicateTriple /\ [][CommitYieldsOneRow]_vars

\* An event has been delivered and committed twice, and is stored once.
C1_Witness ==
    \E a, b \in DOMAIN log :
        /\ a < b
        /\ log[a].msg = log[b].msg
        /\ Committed(a) /\ Committed(b)
        /\ Cardinality(RowsWith(rows, log[a].msg)) = 1

\* C2: a triple that is in the table is in it after every later step.
C2_CommittedStaysInHistory ==
    [][\A r \in rows : RowsWith(rows', Triple(r)) # {}]_vars

\* C3: for a client that pulled the history once its connection was
\* registered and before any push reached it, is still registered and reads
\* its socket, once every ingest has returned: every committed triple is in
\* the pulled history or was pushed to it, and none is in both.
C3_GapFreeNoDuplicate ==
    \A c \in Conns :
        (/\ pulled[c].status = 200
         /\ pulled[c].reg
         /\ pulled[c].pushes = 0
         /\ c \in wsClients
         /\ peer[c] = "open"
         /\ Quiescent)
        => \A a \in SeqRange(commitSeq) :
               LET inHistory ==
                       \E i \in DOMAIN pulled[c].messages :
                           Triple(pulled[c].messages[i]) = log[a].msg
                   pushed ==
                       \E i \in DOMAIN delivered[c] :
                           log[delivered[c][i]].msg = log[a].msg
               IN  (inHistory \/ pushed) /\ ~(inHistory /\ pushed)

\* The place of a committed attempt in the order of commits.
CommitPos(a) == CHOOSE i \in DOMAIN commitSeq : commitSeq[i] = a

\* C4: every message pushed to a connection was committed after the
\* connection was added to wsClients.
C4_PushedOnlyIfCommittedAfterJoin ==
    \A c \in Conns :
        \A i \in DOMAIN delivered[c] : CommitPos(delivered[c][i]) > joined[c]

\* C5: a call of broadcastMessage never writes twice to one connection; when
\* it has returned and no write failed, it has written exactly once to each
\* connection that was registered when it began its traversal of wsClients (a
\* connection that left before then is not one of the K), and to no other.
C5_FanoutCompleteness ==
    \A p \in Ingesters :
        /\ \A c \in Conns : pub[p].count[c] <= 1
        /\ (pub[p].done /\ pub[p].failed = {}) =>
               \A c \in Conns :
                   pub[p].count[c] = IF c \in pub[p].start THEN 1 ELSE 0

\* A call with both connections registered has returned, no write failed.
C5_Witness ==
    \E p \in Ingesters :
        /\ pub[p].done
        /\ pub[p].failed = {}
        /\ pub[p].start = Conns
        /\ \A c \in Conns : pub[p].count[c] = 1

\* C6: a connection whose write failed is out of wsClients from that write
\* on, so at every later call; a call in which a write failed has, when it
\* returns, written exactly once to every connection registered at its
\* start, and each of the others that still reads its socket got the message.
C6_FaultIsolation ==
    /\ dropped \cap wsClients = {}
    /\ \A p \in Ingesters :
           (pub[p].done /\ pub[p].failed # {}) =>
               \A b \in pub[p].start :
                   /\ pub[p].count[b] = 1
                   /\ b \notin pub[p].failed =>
                          \/ InSeq(pub[p].att, delivered[b])
                          \/ peer[b] = "closed"

\* A call has returned in which the write to one connection failed and the
\* other connection got the message.
C6_Witness ==
    \E p \in Ingesters, a, b \in Conns :
        /\ a # b
        /\ pub[p].done
        /\ pub[p].start = {a, b}
        /\ pub[p].failed = {a}
        /\ a \notin wsClients
        /\ b \in wsClients
        /\ InSeq(pub[p].att, delivered[b])

\* C7: a call of broadcastMessage that holds the lock and is in its loop
\* returns, whatever the writes do.
C7_PublishReturns ==
    \A p \in Ingesters : (pc[p] = "range") ~> (pc[p] = "idle")

\* a was pushed to c before b was.
PushedBefore(c, a, b) ==
    \E i, j \in DOMAIN delivered[c] :
        i < j /\ delivered[c][i] = a /\ delivered[c][j] = b

\* C8: of two messages committed in order on the same path, a connection
\* registered before both commits and still registered does not get the
\* second without having got the first before it.
C8_PerPathOrder ==
    \A c \in Conns :
        \A i, j \in DOMAIN commitSeq :
            (/\ i < j
             /\ log[commitSeq[i]].path = log[commitSeq[j]].path
             /\ joined[c] >= 0
             /\ joined[c] < i
             /\ c \in wsClients
             /\ InSeq(commitSeq[j], delivered[c]))
            => PushedBefore(c, commitSeq[i], commitSeq[j])

\* C9: when all commits so far are local sends made one after the other (by
\* one goroutine serving request after request), the history holds all of
\* them, in the order of their commits, and ascends by timestamp.
C9_SequentialSendsAllInOrder ==
    (\E t \in SendThreads :
         \A a \in SeqRange(commitSeq) : log[a].path = "send" /\ log[a].proc = t)
    => \A h \in Snapshots(rows) :
           /\ Len(h) = Len(commitSeq)
           /\ \A i \in DOMAIN h : Triple(h[i]) = log[commitSeq[i]].msg
           /\ \A i, j \in DOMAIN h :
                  i < j => TextLeq(h[i].timestamp, h[j].timestamp)

NotCommittedNotPublished ==
    /\ \A c \in Conns :
           \A i \in DOMAIN delivered[c] : Committed(delivered[c][i])
    /\ \A p \in Ingesters :
           /\ pc[p] \in {"lock", "range"} => Committed(cur[p].att)
           /\ pub[p].att # 0 => Committed(pub[p].att)
    /\ \A a \in DOMAIN log :
           log[a].status = "failed" =>
               /\ ~InSeq(a, commitSeq)
               /\ cur[log[a].proc].att # a
               /\ wsMutex # log[a].proc \/ cur[log[a].proc].att > a

FailedCommitContained ==
    \A p \in Ingesters :
        /\ CommitFails(p) =>
               rows' = rows /\ pc'[p] = "idle" /\ wsMutex' = wsMutex
        /\ CommitSucceeds(p) =>
               RowsWith(rows', Triple(cur[p])) # {} /\ Committed(cur[p].att)'

\* C10: a failed commit leaves the table as it was and its goroutine ready
\* for the next input, without a call of broadcastMessage; every message
\* published or pushed is one whose commit succeeded; a commit that succeeds
\* (after a failed one too) stores its row and goes on to broadcast.
C10_StorageFaultContained ==
    []NotCommittedNotPublished /\ [][FailedCommitContained]_vars

\* A commit failed, and a later event of the same path was committed, is
\* stored and was pushed to a connection.
C10_Witness ==
    \E a, b \in DOMAIN log :
        /\ a < b
        /\ log[a].status = "failed"
        /\ log[a].proc = log[b].proc
        /\ Committed(b)
        /\ RowsWith(rows, log[b].msg) # {}
        /\ \E c \in Conns : InSeq(b, delivered[c])

\* Goroutine t's current or last request is one whose call of
\* client.SendMessage returned an error.
SendFailed(t) == call[t].made /\ ~call[t].ok

SendFailedAnswered500 ==
    \A t \in SendThreads : SendFailed(t) => pc[t] = "idle" /\ resp[t] = 500

SendFailedLeavesNoTrace ==
    \A t \in SendThreads, req \in Requests :
        (/\ req.wellformed
         /\ req.recipient # ""
         /\ SendMessage(t, req, FALSE))
        => /\ SendFailed(t)'
           /\ resp'[t] = 500
           /\ rows' = rows /\ seq' = seq
           /\ log' = log /\ commitSeq' = commitSeq
           /\ pc' = pc /\ cur' = cur
           /\ wsMutex' = wsMutex /\ pub' = pub /\ delivered' = delivered

\* C11: a /send-message request whose body binds and whose recipient parses,
\* and for which client.SendMessage returns an error, is answered 500 in the
\* step that takes it; that step leaves the table, the record of commit
\* attempts and every broadcast as they were, and its goroutine idle, so no
\* commit and no broadcast is made for the request.
C11_SendFailureContained ==
    []SendFailedAnswered500 /\ [][SendFailedLeavesNoTrace]_vars

\* A request's external send failed and was answered 500 while a connection
\* was registered, which got nothing.
C11_Witness ==
    \E t \in SendThreads :
        /\ SendFailed(t)
        /\ resp[t] = 500
        /\ rows = {}
        /\ "c1" \in wsClients
        /\ delivered["c1"] = <<>>

\* Goroutine t's current or last request is one whose call of
\* client.SendMessage returned without error.
SendDone(t) == call[t].made /\ call[t].ok

\* The table holds the mirrored copy of text: a row of the local sender.
Mirrored(table, text) ==
    \E r \in table : r.sender = LocalSender /\ r.message = text

\* The last ingest attempt of goroutine p.
LastAttempt(p) ==
    CHOOSE a \in DOMAIN log :
        log[a].proc = p /\ \A b \in DOMAIN log : b > a => log[b].proc # p

MirrorInOrder ==
    \A t \in SendThreads :
        /\ pc[t] \in {"commit", "lock", "range"} =>
               /\ SendDone(t)
               /\ cur[t].sender = LocalSender
               /\ cur[t].message = call[t].text
               /\ resp[t] = 0
        /\ pc[t] \in {"lock", "range"} =>
               Committed(cur[t].att) /\ Mirrored(rows, call[t].text)
        /\ SendDone(t) /\ pc[t] = "idle" =>
               /\ resp[t] = 200
               /\ log[LastAttempt(t)].msg[1] = LocalSender
               /\ log[LastAttempt(t)].msg[2] = call[t].text
               /\ log[LastAttempt(t)].status \in {"committed", "failed"}
               /\ Committed(LastAttempt(t)) =>
                      /\ Mirrored(rows, call[t].text)
                      /\ pub[t].att = LastAttempt(t)
                      /\ pub[t].done

PulledHoldsMirrored ==
    \A c \in Conns :
        (pulled'[c] # pulled[c] /\ pulled'[c].status = 200) =>
            \A a \in DOMAIN log :
                (log[a].path = "send" /\ Committed(a)) =>
                    \E i \in DOMAIN pulled'[c].messages :
                        /\ pulled'[c].messages[i].sender = LocalSender
                        /\ pulled'[c].messages[i].message = log[a].msg[2]

\* C12: a request whose body binds, whose recipient parses and whose
\* external send succeeds is answered 200; client.SendMessage has returned
\* before the commit is tried, the commit has succeeded before
\* broadcastMessage is called, and the answer is given after broadcastMessage
\* has returned. Once its commit has succeeded (the storage fault of C10
\* apart), a row with the local sender and the sent text is in the table from
\* then on, and in every /receive-message answered 200 afterwards.
C12_SentIsMirroredIfCommitted ==
    []MirrorInOrder /\ [][PulledHoldsMirrored]_vars

\* A request was sent, committed, pushed to the connection and answered 200,
\* and the history pulled afterwards holds its row.
C12_Witness ==
    \E t \in SendThreads :
        /\ SendDone(t)
        /\ resp[t] = 200
        /\ Committed(LastAttempt(t))
        /\ InSeq(LastAttempt(t), delivered["c1"])
        /\ pulled["c1"].status = 200
        /\ pulled["c1"].pushes > 0
        /\ Mirrored(SeqRange(pulled["c1"].messages), call[t].text)

\* The deliveries of an external event (the attempts of the event path with
\* its triple), and those of them whose commit succeeded.
Deliveries(triple) ==
    {a \in DOMAIN log : log[a].path = "event" /\ log[a].msg = triple}
CommittedDeliveries(triple) == {a \in Deliveries(triple) : Committed(a)}

\* How many times a message with this triple was pushed to connection c.
Pushes(c, triple) ==
    Cardinality({i \in DOMAIN delivered[c] :
                    log[delivered[c][i]].msg = triple})

\* Connection c was registered before the first of these commits, still is,
\* and its peer reads.
RegisteredThroughout(c, atts) ==
    /\ joined[c] >= 0
    /\ \A b \in atts : joined[c] < CommitPos(b)
    /\ c \in wsClients
    /\ peer[c] = "open"

\* C13: an external event delivered more than once and committed is stored
\* in exactly one row; no connection is pushed it more often than its
\* deliveries were committed (at most twice for two deliveries); and once the
\* event path is idle, a connection registered throughout has been pushed it
\* once for every committed delivery, the one that changed nothing too, so at
\* least once.
C13_RedeliverySafe ==
    \A a \in DOMAIN log :
        (log[a].path = "event" /\ Committed(a)) =>
            /\ Cardinality(RowsWith(rows, log[a].msg)) = 1
            /\ \A c \in Conns :
                   /\ Pushes(c, log[a].msg)
                          <= Cardinality(CommittedDeliveries(log[a].msg))
                   /\ Pushes(c, log[a].msg)
                          <= Cardinality(Deliveries(log[a].msg))
                   /\ (/\ Quiescent
                       /\ RegisteredThroughout(
                              c, CommittedDeliveries(log[a].msg)))
                      => /\ Pushes(c, log[a].msg)
                               = Cardinality(CommittedDeliveries(log[a].msg))
                         /\ Pushes(c, log[a].msg) >= 1

\* The same event was delivered twice and committed twice; it is stored once
\* and a connection registered throughout got it twice.
C13_Witness ==
    \E a, b \in DOMAIN log, c \in Conns :
        /\ a < b
        /\ log[a].path = "event"
        /\ log[a].msg = log[b].msg
        /\ Deliveries(log[a].msg) = {a, b}
        /\ CommittedDeliveries(log[a].msg) = {a, b}
        /\ Quiescent
        /\ RegisteredThroughout(c, {a, b})
        /\ Cardinality(RowsWith(rows, log[a].msg)) = 1
        /\ Pushes(c, log[a].msg) = 2

\* The request has a body that does not bind, or a recipient with no user
\* part.
Malformed(req) == ~req.wellformed \/ req.recipient = ""

RejectedMadeNoCall ==
    \A t \in SendThreads : resp[t] = 400 => ~call[t].made /\ pc[t] = "idle"

MalformedLeavesNoTrace ==
    \A t \in SendThreads, req \in Requests, ok \in BOOLEAN :
        (Malformed(req) /\ SendMessage(t, req, ok))
        => /\ resp'[t] = 400
           /\ ~call'[t].made
           /\ rows' = rows /\ seq' = seq
           /\ log' = log /\ commitSeq' = commitSeq
           /\ pc' = pc /\ cur' = cur
           /\ wsMutex' = wsMutex /\ pub' = pub /\ delivered' = delivered

\* C14: a /send-message request whose body does not bind or whose recipient
\* does not parse is answered 400 in the step that takes it, without a call
\* of client.SendMessage; that step leaves the table, the record of commit
\* attempts and every broadcast as they were, and its goroutine idle.
C14_MalformedRejected ==
    []RejectedMadeNoCall /\ [][MalformedLeavesNoTrace]_vars

\* A request was answered 400 without an external send, after another one
\* was sent and stored; the table holds that one row only.
C14_Witness ==
    \E t, u \in SendThreads :
        /\ t # u
        /\ resp[t] = 400
        /\ ~call[t].made
        /\ SendDone(u)
        /\ resp[u] = 200
        /\ Cardinality(rows) = 1
        /\ Len(log) = 1

\* The connections whose handler has added them, and those whose handler
\* has completed its removal.
Added == {c \in Conns : joined[c] >= 0}
Removed == {c \in Added : hpc[c] = "done"}

\* C15: as long as no write has failed, whatever registrations, handler
\* exits and calls of broadcastMessage have interleaved, wsClients holds
\* exactly the connections added and not removed (a key is in a map once).
C15_RegistryChurnSafe ==
    dropped = {} => wsClients = Added \ Removed

\* One connection was added and removed, the other added and kept, around a
\* call of broadcastMessage that wrote to both, and no write failed.
C15_Witness ==
    \E a, b \in Conns :
        /\ a # b
        /\ dropped = {}
        /\ a \in Removed
        /\ b \in Added \ Removed
        /\ wsClients = {b}
        /\ pub[Ext].done
        /\ pub[Ext].start = {a, b}

\* The connections whose removal has completed, by their handler or after
\* a failed write.
Gone == Removed \cup dropped

GoneNotTargeted ==
    /\ Gone \cap wsClients = {}
    /\ \A p \in Ingesters : pc[p] = "range" => Gone \cap RangeTargets(p) = {}

\* Goroutine p calls c.WriteJSON in this step.
WritesTo(p, c) == pub'[p].count[c] > pub[p].count[c]

NoWriteToGone ==
    \A p \in Ingesters, c \in Conns :
        WritesTo(p, c) => c \in wsClients /\ c \notin Gone

\* C16: a connection whose removal has completed, by its handler's exit or
\* after a failed write, is not in wsClients and not among the keys a loop of
\* broadcastMessage still has to produce; no call of broadcastMessage, one in
\* its loop or a later one, writes to it.
C16_NoVisitAfterRemove ==
    []GoneNotTargeted /\ [][NoWriteToGone]_vars

\* A connection got a first message and was removed; a later call of
\* broadcastMessage has returned that wrote to the other connection and not
\* to the removed one.
C16_Witness ==
    \E a, b \in Conns :
        /\ a # b
        /\ a \in Gone
        /\ Len(delivered[a]) = 1
        /\ pub[Ext].done
        /\ pub[Ext].att \notin SeqRange(delivered[a])
        /\ pub[Ext].count[a] = 0
        /\ pub[Ext].count[b] = 1
        /\ InSeq(pub[Ext].att, delivered[b])

\* The handler of c completes its removal in this step.
HandlerRemoves(c) == hpc[c] = "remove" /\ hpc'[c] = "done"

RemoveAbsentIsNoOp ==
    \A c \in Conns :
        HandlerRemoves(c) =>
            /\ c \notin wsClients'
            /\ c \notin wsClients => wsClients' = wsClients
            /\ \A d \in Conns \ {c} : (d \in wsClients') = (d \in wsClients)

\* C17: the handler's removal of a connection that is no longer in wsClients
\* (broadcastMessage deleted it after a failed write) leaves wsClients as it
\* was; any removal leaves the membership of every other connection as it
\* was.
C17_RemoveIdempotent == [][RemoveAbsentIsNoOp]_vars

\* The handler of a connection that broadcastMessage had deleted after a
\* failed write has completed its own removal, and the other connection is
\* still registered.
C17_Witness ==
    \E a, b \in Conns :
        /\ a # b
        /\ a \in dropped
        /\ hpc[a] = "done"
        /\ b \in wsClients
        /\ wsClients = {b}

\* The instant a timestamp text stands for, in tenths of a second: two
\* digits of seconds and, after a '.', one of tenths.
Instant(ts) ==
    (ts[1] - 48) * 100 + (ts[2] - 48) * 10
        + (IF ts[3] = 46 THEN ts[4] - 48 ELSE 0)

\* The client of c gets its answer in this step.
Pulls(c) == pulled'[c] # pulled[c]

\* The answer r is the right one for the table: the marker and no list when
\* it is empty, otherwise every stored triple once, in ascending order of
\* the instants.
AnswersTable(r, table) ==
    IF table = {}
    THEN r.marker /\ r.messages = <<>>
    ELSE /\ ~r.marker
         /\ Len(r.messages) = Cardinality(table)
         /\ {Triple(r.messages[i]) : i \in DOMAIN r.messages}
               = {Triple(x) : x \in table}
         /\ \A i, j \in DOMAIN r.messages :
                i < j => Instant(r.messages[i].timestamp)
                           <= Instant(r.messages[j].timestamp)

\* C18: a GET /receive-message is answered 200 unless its query fails (a
\* storage fault, answered 500 with neither marker nor list): with the 'no
\* messages' marker and no list when the table is empty, and otherwise with
\* every stored message once, of every sender, in ascending order of
\* timestamp.
C18_HistoryAnswer ==
    [][\A c \in Conns :
           Pulls(c) =>
               /\ pulled'[c].status \in {200, 500}
               /\ pulled'[c].status = 200 => AnswersTable(pulled'[c], rows)
               /\ pulled'[c].status = 500 =>
                      ~pulled'[c].marker /\ pulled'[c].messages = <<>>]_vars

\* The history was pulled when the table held an event and a local send of
\* different instants: the answer is 200 with both, the earlier first.
C18_Witness ==
    /\ pulled["c1"].status = 200
    /\ ~pulled["c1"].marker
    /\ Len(pulled["c1"].messages) = 2
    /\ pulled["c1"].messages[1].sender = LocalSender
    /\ pulled["c1"].messages[2].sender # LocalSender
    /\ Instant(pulled["c1"].messages[1].timestamp)
          < Instant(pulled["c1"].messages[2].timestamp)

\* Goroutine p is in its loop and every write it can make next is to a peer
\* that does not read: its call of WriteJSON does not return.
WriteBlocked(p) ==
    /\ pc[p] = "range"
    /\ RangeTargets(p) # {}
    /\ \A c \in RangeTargets(p) : peer[c] = "stalled"

\* C19: while a call of broadcastMessage is in a write to a peer that does
\* not read, a handler that has upgraded its connection can add it to
\* wsClients, and a handler whose read loop has ended can remove its own.
C19_AddNotBlockedByWrite ==
    \A p \in Ingesters :
        WriteBlocked(p) =>
            \A d \in Conns :
                /\ hpc[d] = "upgraded" => ENABLED Register(d)
                /\ hpc[d] = "remove" => ENABLED Remove(d)

\* The connections that are connected and have not failed a write: added by
\* a handler that is still in its read loop (it has seen no closure and no
\* read error), and not deleted after a failed write.
Live == {c \in Added : hpc[c] = "reading" /\ c \notin dropped}

\* C20: in every state wsClients is exactly the set of connections that are
\* connected and have not failed a write; one whose handler has seen the
\* closure or a read error, or whose write has failed, is not in it.
C20_RegisteredExactlyLive == wsClients = Live

\* The session of a connection: it is added once, by its handler right after
\* the upgrade; the handler leaves its read loop only on a closure or a read
\* error, and then removes the connection; a connection once out of
\* wsClients is never put back.
SessionSteps ==
    \A c \in Conns :
        /\ (c \notin wsClients /\ c \in wsClients') =>
               hpc[c] = "upgraded" /\ hpc'[c] = "reading" /\ c \notin Added
        /\ (hpc[c] = "reading" /\ hpc'[c] # "reading") =>
               hpc'[c] = "remove" /\ (peer[c] = "closed" \/ c \in closed)
        /\ (hpc[c] = "remove" /\ hpc'[c] # "remove") =>
               hpc'[c] = "done" /\ c \notin wsClients'
        /\ (c \in Added /\ c \notin wsClients) => c \notin wsClients'

ClosedLeavesRegistry ==
    \A c \in Conns :
        (c \in wsClients /\ peer[c] = "closed") ~> (c \notin wsClients)

\* C21: a /ws session adds its connection once after the upgrade, then only
\* reads until a closure or error, then removes it, and a connection removed
\* is never added again; with every goroutine that can run running, a
\* registered connection whose peer has closed is eventually out of
\* wsClients.
C21_SessionLifecycle == [][SessionSteps]_vars /\ ClosedLeavesRegistry

\* The rows of the table with this sender and body.
RowsOfPair(table, m) ==
    {r \in table : r.sender = m.sender /\ r.message = m.message}

OneRowPerPair == \A r \in rows : RowsOfPair(rows, r) = {r}

ReplaceKeepsId ==
    \A p \in Ingesters :
        CommitSucceeds(p) =>
            \A r \in RowsOfPair(rows, cur[p]) :
                /\ rows' = (rows \ {r}) \cup {NewRow(r.id, cur[p], seq)}
                /\ NewRow(r.id, cur[p], seq).id = r.id
                /\ NewRow(r.id, cur[p], seq).timestamp = cur[p].timestamp
                /\ Cardinality(rows') = Cardinality(rows)
                /\ seq' = seq

\* C22: the table never holds two rows with the same sender and body; a
\* commit whose sender and body are those of a stored row replaces that row,
\* under the same id and with the new timestamp, and the number of rows stays
\* the same.
C22_OneRowPerSenderBody == []OneRowPerPair /\ [][ReplaceKeepsId]_vars

\* Two messages of the same sender and body and of different timestamps
\* were committed: the table holds one row, with the first id and the
\* timestamp of the one committed last.
C22_Witness ==
    \E a, b \in DOMAIN log :
        /\ commitSeq = <<a, b>>
        /\ log[a].msg[1] = log[b].msg[1]
        /\ log[a].msg[2] = log[b].msg[2]
        /\ log[a].msg[3] # log[b].msg[3]
        /\ \E r \in rows :
               rows = {r} /\ r.id = 1 /\ Triple(r) = log[b].msg

\* At most one goroutine is in the loop of broadcastMessage, and it holds
\* wsMutex.
OneInLoop ==
    \A p \in Ingesters :
        pc[p] = "range" =>
            /\ wsMutex = p
            /\ \A q \in Ingesters \ {p} : pc[q] # "range"

\* Two messages that reached two connections reached them in the same order.
SameOrderEverywhere ==
    \A c, d \in Conns :
        \A a, b \in SeqRange(delivered[c]) \cap SeqRange(delivered[d]) :
            PushedBefore(c, a, b) => PushedBefore(d, a, b)

WritesUnderLock ==
    \A p \in Ingesters, c \in Conns :
        WritesTo(p, c) =>
            /\ wsMutex = p /\ wsMutex' = p
            /\ \A q \in Ingesters \ {p} :
                   pc[q] # "range" /\ pub'[q] = pub[q]

\* C23: every write to a connection is made by the goroutine that holds
\* wsMutex, which keeps it for its whole loop: no other goroutine is in its
\* loop or writes meanwhile, so the writes of two concurrent calls of
\* broadcastMessage do not interleave, no connection is written to by two
\* goroutines at once, and two connections that get the messages of both
\* calls get them in the same order.
C23_WritesSerialized ==
    [](OneInLoop /\ SameOrderEverywhere) /\ [][WritesUnderLock]_vars

\* One call of broadcastMessage has written to one of two registered
\* connections and not yet to the other, while another call waits for the
\* lock.
C23_Witness ==
    \E p, q \in Ingesters :
        /\ p # q
        /\ pc[p] = "range"
        /\ wsClients = Conns
        /\ Cardinality(visited[p]) = 1
        /\ pc[q] = "lock"

\* The delete after a failed write is made by the goroutine that holds
\* wsMutex, which keeps it: there is no second Lock.
DropsUnderHeldLock ==
    \A p \in Ingesters, c \in Conns :
        (WritesTo(p, c) /\ c \in dropped' /\ c \notin dropped) =>
            wsMutex = p /\ wsMutex' = p /\ c \notin wsClients'

\* No goroutine stays for ever at a Lock or inside the locked section, and
\* the lock is free again and again: whoever waits for wsMutex gets it, and
\* whoever holds it gives it back.
LockWaitEnds ==
    /\ \A p \in Ingesters : []<>(pc[p] \notin {"lock", "range"})
    /\ \A c \in Conns : []<>(hpc[c] \notin {"upgraded", "remove"})
    /\ []<>(wsMutex = NoOne)

\* C24: with writes that return, whatever events, /send-message requests,
\* connects and disconnects interleave, every goroutine that waits for
\* wsMutex gets it and every holder releases it; broadcastMessage deletes a
\* connection whose write failed while it holds the lock, without taking it
\* again.
C24_NoLockDeadlock == [][DropsUnderHeldLock]_vars /\ LockWaitEnds

\* A write failed and the connection was deleted in the loop; the call has
\* returned and released the lock, and the handler, which waited for it, has
\* completed its own removal.
C24_Witness ==
    \E p \in Ingesters, c \in Conns :
        /\ c \in pub[p].failed
        /\ pub[p].done
        /\ wsMutex = NoOne
        /\ hpc[c] = "done"

\* The text of ingest attempt a was mirrored by an attempt that committed.
MirrorCommitted(text) ==
    \E b \in DOMAIN log :
        log[b].path = "send" /\ log[b].msg[2] = text /\ Committed(b)

\* The step in which the commit of a sent request fails: the request is
\* answered 200 in that very step, the table is what it was, and
\* broadcastMessage is not called.
SentCommitFailureAnswered200 ==
    \A t \in SendThreads :
        CommitFails(t) =>
            /\ SendDone(t)
            /\ resp[t] = 0 /\ resp'[t] = 200
            /\ rows' = rows
            /\ pc'[t] = "idle"
            /\ wsMutex' = wsMutex /\ pub' = pub /\ delivered' = delivered

\* A sent text none of whose commits succeeded has no row, is in no answer of
\* /receive-message and was pushed to no connection; its request, until the
\* goroutine serves the next one, is answered as one whose commit succeeded.
UncommittedMirrorAbsent ==
    \A a \in DOMAIN log :
        (log[a].path = "send" /\ log[a].status = "failed") =>
            /\ \A c \in Conns : ~InSeq(a, delivered[c])
            /\ \A p \in Ingesters : pub[p].att # a
            /\ (/\ LastAttempt(log[a].proc) = a
                /\ SendDone(log[a].proc)
                /\ pc[log[a].proc] = "idle") => resp[log[a].proc] = 200
            /\ ~MirrorCommitted(log[a].msg[2]) =>
                   /\ ~Mirrored(rows, log[a].msg[2])
                   /\ \A c \in Conns :
                          ~Mirrored(SeqRange(pulled[c].messages),
                                    log[a].msg[2])

\* C25: a /send-message request whose external send succeeded and whose
\* commit fails is answered 200 all the same; the failure changes nothing but
\* the log: the table is as before, broadcastMessage is not called, the text
\* is in no history answer and in no push unless another commit stored it,
\* and the answer is the one a committed request gets.
C25_CommitFailureStill200 ==
    []UncommittedMirrorAbsent /\ [][SentCommitFailureAnswered200]_vars

\* A request was sent, its commit failed and it was answered 200, while the
\* connection was registered and got nothing, the table is empty and the
\* history answered holds no message.
C25_Witness ==
    \E t \in SendThreads :
        /\ SendDone(t)
        /\ pc[t] = "idle"
        /\ resp[t] = 200
        /\ log[LastAttempt(t)].status = "failed"
        /\ ~MirrorCommitted(call[t].text)
        /\ rows = {}
        /\ "c1" \in wsClients
        /\ delivered["c1"] = <<>>
        /\ pulled["c1"].status = 200
        /\ pulled["c1"].marker

\* A write that fails closes the transport and deletes the connection; the
\* handler's own delete, when it comes, finds the key gone and changes
\* nothing.
DropClosesThenRemoveNoOp ==
    \A c \in Conns :
        /\ (c \in dropped' /\ c \notin dropped) =>
               c \in closed' /\ c \notin wsClients'
        /\ (c \in dropped /\ hpc[c] = "remove" /\ hpc'[c] = "done") =>
               wsClients' = wsClients
        /\ (c \in dropped /\ hpc'[c] # hpc[c]) =>
               \/ hpc[c] = "reading" /\ hpc'[c] = "remove"
               \/ hpc[c] = "remove" /\ hpc'[c] = "done"

\* The handler of a connection that broadcastMessage removed terminates.
DroppedHandlerEnds == \A c \in Conns : (c \in dropped) ~> (hpc[c] = "done")

\* C26: a failed write makes broadcastMessage close the transport and delete
\* the connection; with every goroutine that can run running, the
\* connection's handler then sees the closure, makes its delete, which
\* changes nothing, and terminates.
C26_DroppedSessionEnds ==
    [][DropClosesThenRemoveNoOp]_vars /\ DroppedHandlerEnds

=============================================================================
